---- MODULE Spec2Model ----
(***************************************************************************)
(* Zodiac-Oracle-Live-Transits: the aspect engine (scripts/utils/aspects), *)
(* the house engine (scripts/utils/houses), zodiac_sign, harmonics and     *)
(* TransitGenerator._compute_harmonics as state machines.                  *)
(*                                                                         *)
(* Units.  Longitudes, separations and orbs are whole degrees.  Table      *)
(* multipliers keep their decimal digits as integers (BASE_POWER in        *)
(* hundredths, STAR_MULTIPLIER and TNO_MULTIPLIER in tenths); a score is   *)
(* an exact fraction [n, d] until round() is applied to it.  A record's    *)
(* "score" field is in units of 0.0001 and its "intensity" in units of 0.1 *)
(* (the digits round(x, 4) and round(x, 1) keep).                          *)
(***************************************************************************)
EXTENDS Integers, Sequences, FiniteSets, TLC

VARIABLES op, args, ret, bodies, outcome, aspects, evaluated, calls, self

vars == <<op, args, ret, bodies, outcome, aspects, evaluated, calls, self>>

(***************************************************************************)
(* Bounds of the model                                                     *)
(***************************************************************************)
MaxBodies == 3          \* bodies in the mapping given to compute_all_aspects
AngleStep == 5          \* spacing of the longitudes given to angle_diff
MaxTurns == 1           \* whole turns below 0 and above 360 given to angle_diff
MaxStrLen == 2          \* characters of a string given to harmonics
MaxCalls == 3           \* calls of one sequence of calls to the core functions

Abs(x) == IF x < 0 THEN -x ELSE x
Max(x, y) == IF x >= y THEN x ELSE y
Min(x, y) == IF x <= y THEN x ELSE y

RECURSIVE GCD(_, _)
GCD(x, y) == IF y = 0 THEN x ELSE GCD(y, x % y)

\* exact product of the fraction f and n/d, in lowest terms
MulFrac(f, n, d) ==
    LET g1 == GCD(f.n, d)
        g2 == GCD(n, f.d)
    IN  IF f.n = 0 \/ n = 0 THEN [n |-> 0, d |-> 1]
        ELSE [n |-> (f.n \div g1) * (n \div g2), d |-> (f.d \div g2) * (d \div g1)]

(***************************************************************************)
(* aspects.py: tables                                                      *)
(***************************************************************************)
ASPECTS_sextile30 == << [name |-> "conjunction", angle |-> 0],
                        [name |-> "sextile",     angle |-> 30],
                        [name |-> "square",      angle |-> 90],
                        [name |-> "trine",       angle |-> 120],
                        [name |-> "opposition",  angle |-> 180] >>

\* dict in insertion order, which is the order .items() iterates in
ASPECTS == << [name |-> "conjunction", angle |-> 0],
              [name |-> "sextile",     angle |-> 60],
              [name |-> "square",      angle |-> 90],
              [name |-> "trine",       angle |-> 120],
              [name |-> "opposition",  angle |-> 180] >>

ORB_MAX == 10

\* hundredths
BASE_POWER == [conjunction |-> 140, opposition |-> 160, square |-> 150,
               trine |-> 110, sextile |-> 70]

\* tenths
STAR_MULTIPLIER == [Regulus |-> 18, Spica |-> 15, Aldebaran |-> 17, Antares |-> 17,
                    Algol |-> 20, Sirius |-> 16, Canopus |-> 16, Fomalhaut |-> 16]

\* tenths
TNO_MULTIPLIER == [Sedna |-> 22, Eris |-> 16, Haumea |-> 16, Makemake |-> 16,
                   Quaoar |-> 16, Orcus |-> 14, Varuna |-> 14, Ixion |-> 14,
                   Salacia |-> 14, Typhon |-> 18]

(***************************************************************************)
(* aspects.py: functions                                                   *)
(***************************************************************************)
RECURSIVE norm(_)
norm(deg) == IF deg < 0 THEN norm(deg + 360)
             ELSE IF deg >= 360 THEN norm(deg - 360)
             ELSE deg

angle_diff_signed(a, b) ==
    LET diff == a - b
    IN  IF diff > 180 THEN 360 - diff ELSE diff

angle_diff(a, b) ==
    LET diff == Abs(a - b)
    IN  IF diff > 180 THEN 360 - diff ELSE diff

\* numerator of the multiplier over the denominator ORB_MAX
orb_multiplier(orb) ==
    IF orb > ORB_MAX THEN 0 ELSE Max(0, ORB_MAX - orb)

\* numerator of 1 + (abs(h) % 10) / 20 over the denominator 20
harmonic_multiplier(h) == 20 + (Abs(h) % 10)

\* product in hundredths: m = 1.0, times the table entry of each listed name
star_mult(name_a, name_b) ==
    LET fa == IF name_a \in DOMAIN STAR_MULTIPLIER THEN STAR_MULTIPLIER[name_a] ELSE 10
        fb == IF name_b \in DOMAIN STAR_MULTIPLIER THEN STAR_MULTIPLIER[name_b] ELSE 10
    IN  fa * fb

tno_mult(name_a, name_b) ==
    LET fa == IF name_a \in DOMAIN TNO_MULTIPLIER THEN TNO_MULTIPLIER[name_a] ELSE 10
        fb == IF name_b \in DOMAIN TNO_MULTIPLIER THEN TNO_MULTIPLIER[name_b] ELSE 10
    IN  fa * fb

\* round(x, ndigits) of the fraction f, as an integer count of units of
\* 1/scale: the nearest integer to f * scale.  The code rounds the binary
\* double nearest to the product, so on an exact tie either neighbour can
\* come out; both are kept.
round(f, scale) ==
    LET x == MulFrac(f, scale, 1)
        q == x.n \div x.d
        r == x.n % x.d
    IN  IF 2 * r < x.d THEN {q}
        ELSE IF 2 * r > x.d THEN {q + 1}
        ELSE {q, q + 1}

\* the return value None of compute_aspect
None == [type |-> "None"]

\* the test that admits an aspect
Admits_wide(orb) == orb <= 4 * ORB_MAX
Admits(orb) == orb <= ORB_MAX

\* the for loop over ASPECTS.items(): index of the first aspect admitted,
\* 0 when the loop ends without a return
RECURSIVE FirstAdmitted(_, _)
FirstAdmitted(diff, k) ==
    IF k > Len(ASPECTS) THEN 0
    ELSE IF Admits(Abs(diff - ASPECTS[k].angle)) THEN k
    ELSE FirstAdmitted(diff, k + 1)

\* base * orb_m * harm_m * star_m * tno_m as an exact fraction
ScoreNoHarm(asp_name, orb, a_harm, b_harm, name_a, name_b) ==
    MulFrac(MulFrac(MulFrac([n |-> BASE_POWER[asp_name], d |-> 100],
                            orb_multiplier(orb), ORB_MAX),
                    star_mult(name_a, name_b), 100),
            tno_mult(name_a, name_b), 100)

Score(asp_name, orb, a_harm, b_harm, name_a, name_b) ==
    MulFrac(MulFrac(MulFrac(MulFrac([n |-> BASE_POWER[asp_name], d |-> 100],
                                    orb_multiplier(orb), ORB_MAX),
                            harmonic_multiplier(a_harm) + harmonic_multiplier(b_harm), 40),
                    star_mult(name_a, name_b), 100),
            tno_mult(name_a, name_b), 100)

\* the set of values the call can return: one record, or two that differ in
\* a rounded field when the exact score is a rounding tie
compute_aspect(name_a, a_lon, a_harm, name_b, b_lon, b_harm) ==
    LET diff == angle_diff(a_lon, b_lon)
        k == FirstAdmitted(diff, 1)
    IN  IF k = 0 THEN {None}
        ELSE LET asp_name == ASPECTS[k].name
                 asp_angle == ASPECTS[k].angle
                 orb == Abs(diff - asp_angle)
                 score == Score(asp_name, orb, a_harm, b_harm, name_a, name_b)
             IN  { [type |-> asp_name, angle |-> diff, orb |-> orb,
                    exact |-> asp_angle, score |-> s, intensity |-> t] :
                   s \in round(score, 10000), t \in round(score, 1000) }

\* the dictionary key f"{a}-{b}"
key(a, b) == a \o "-" \o b

EmptyGrid == [k \in {} |-> None]

\* aspects[k] = v
Put(f, k, v) == [x \in (DOMAIN f) \cup {k} |-> IF x = k THEN v ELSE f[x]]

\* a body of the mapping carries a longitude; bodies[a]["lon"] raises for
\* one that does not (and angle_diff raises on None - b just the same)
HasLon(body) == "lon" \in DOMAIN body

\* first value of the inner loop variable: range(i + 1, len(names))
InnerStart_self(i) == i
InnerStart(i) == i + 1

\* one pass of the inner loop body from a state of the call
\* [aspects, evaluated, raised]; a raised exception ends the call
PairStep(st, bs, i, j) ==
    LET a == bs[i].name
        b == bs[j].name
    IN  IF st.raised THEN {st}
        ELSE IF ~HasLon(bs[i]) \/ ~HasLon(bs[j]) THEN {[st EXCEPT !.raised = TRUE]}
        ELSE { [aspects |-> IF asp = None THEN st.aspects
                            ELSE Put(st.aspects, key(a, b), asp),
                evaluated |-> Append(st.evaluated, <<a, b>>),
                raised |-> FALSE] :
               asp \in compute_aspect(a, bs[i].lon, bs[i].harmonics,
                                      b, bs[j].lon, bs[j].harmonics) }

\* the two nested for loops, indices counted from 1
RECURSIVE Loop(_, _, _, _)
Loop(S, bs, i, j) ==
    IF i > Len(bs) THEN S
    ELSE IF j > Len(bs) THEN Loop(S, bs, i + 1, InnerStart(i + 1))
    ELSE Loop(UNION { PairStep(st, bs, i, j) : st \in S }, bs, i, j + 1)

CarriedGrid == aspects

\* aspects = {}: every call starts from a dict of its own
FreshGrid == EmptyGrid

\* the set of outcomes of the call (more than one only on rounding ties)
compute_all_aspects(bs) ==
    Loop({[aspects |-> FreshGrid, evaluated |-> <<>>, raised |-> FALSE]},
         bs, 1, InnerStart(1))

(***************************************************************************)
(* houses.py                                                               *)
(*                                                                         *)
(* Angles are whole degrees.  The two trigonometric expressions of the     *)
(* house engine are tabulated at every whole degree of their argument,     *)
(* each entry being the value the expression takes there, after rad2deg,   *)
(* cut to a whole degree.  A Julian Date enters only through gmst(jd), so  *)
(* it is represented by that value, a whole degree in [0, 360).            *)
(***************************************************************************)
\* rad2deg(atan2(cos(lst), sin(lst) * cos(eps))) at lst = 0, 1, ..., 359
McOfLst ==
    << 90, 89, 88, 87, 86, 85, 84, 83, 82, 81, 80, 79, 78, 78, 77, 76, 75,
       74, 73, 72, 71, 70, 69, 68, 67, 66, 65, 64, 63, 63, 62, 61, 60, 59,
       58, 57, 56, 55, 54, 53, 52, 51, 50, 49, 48, 47, 46, 45, 44, 43, 42,
       41, 40, 39, 38, 37, 36, 35, 34, 33, 32, 31, 30, 29, 27, 26, 25, 24,
       23, 22, 21, 20, 19, 18, 17, 16, 15, 14, 13, 11, 10, 9, 8, 7, 6, 5, 4,
       3, 2, 1, 0, 358, 357, 356, 355, 354, 353, 352, 351, 350, 349, 348,
       346, 345, 344, 343, 342, 341, 340, 339, 338, 337, 336, 335, 334, 333,
       332, 330, 329, 328, 327, 326, 325, 324, 323, 322, 321, 320, 319, 318,
       317, 316, 315, 314, 313, 312, 311, 310, 309, 308, 307, 306, 305, 304,
       303, 302, 301, 300, 299, 298, 297, 296, 296, 295, 294, 293, 292, 291,
       290, 289, 288, 287, 286, 285, 284, 283, 282, 281, 281, 280, 279, 278,
       277, 276, 275, 274, 273, 272, 271, 270, 270, 269, 268, 267, 266, 265,
       264, 263, 262, 261, 260, 259, 258, 258, 257, 256, 255, 254, 253, 252,
       251, 250, 249, 248, 247, 246, 245, 244, 243, 243, 242, 241, 240, 239,
       238, 237, 236, 235, 234, 233, 232, 231, 230, 229, 228, 227, 226, 225,
       224, 223, 222, 221, 220, 219, 218, 217, 216, 215, 214, 213, 212, 211,
       210, 209, 207, 206, 205, 204, 203, 202, 201, 200, 199, 198, 197, 196,
       195, 194, 193, 191, 190, 189, 188, 187, 186, 185, 184, 183, 182, 181,
       180, 178, 177, 176, 175, 174, 173, 172, 171, 170, 169, 168, 166, 165,
       164, 163, 162, 161, 160, 159, 158, 157, 156, 155, 154, 153, 152, 150,
       149, 148, 147, 146, 145, 144, 143, 142, 141, 140, 139, 138, 137, 136,
       135, 134, 133, 132, 131, 130, 129, 128, 127, 126, 125, 124, 123, 122,
       121, 120, 119, 118, 117, 116, 116, 115, 114, 113, 112, 111, 110, 109,
       108, 107, 106, 105, 104, 103, 102, 101, 101, 100, 99, 98, 97, 96, 95,
       94, 93, 92, 91, 90 >>

\* rad2deg(atan(tan(RA) * cos(eps))) at RA = 0, 1, ..., 359; the entry at
\* RA = 180 is 360: atan gives -1.1e-16 there and (-6.4e-15) % 360 is 360.0
EclOfRA ==
    << 0, 0, 1, 2, 3, 4, 5, 6, 7, 8, 9, 10, 11, 11, 12, 13, 14, 15, 16, 17,
       18, 19, 20, 21, 22, 23, 24, 25, 26, 26, 27, 28, 29, 30, 31, 32, 33,
       34, 35, 36, 37, 38, 39, 40, 41, 42, 43, 44, 45, 46, 47, 48, 49, 50,
       51, 52, 53, 54, 55, 56, 57, 58, 59, 60, 62, 63, 64, 65, 66, 67, 68,
       69, 70, 71, 72, 73, 74, 75, 76, 78, 79, 80, 81, 82, 83, 84, 85, 86,
       87, 88, 90, 271, 272, 273, 274, 275, 276, 277, 278, 279, 280, 281,
       283, 284, 285, 286, 287, 288, 289, 290, 291, 292, 293, 294, 295, 296,
       297, 299, 300, 301, 302, 303, 304, 305, 306, 307, 308, 309, 310, 311,
       312, 313, 314, 315, 316, 317, 318, 319, 320, 321, 322, 323, 324, 325,
       326, 327, 328, 329, 330, 331, 332, 333, 333, 334, 335, 336, 337, 338,
       339, 340, 341, 342, 343, 344, 345, 346, 347, 348, 348, 349, 350, 351,
       352, 353, 354, 355, 356, 357, 358, 359, 360, 0, 1, 2, 3, 4, 5, 6, 7,
       8, 9, 10, 11, 11, 12, 13, 14, 15, 16, 17, 18, 19, 20, 21, 22, 23, 24,
       25, 26, 26, 27, 28, 29, 30, 31, 32, 33, 34, 35, 36, 37, 38, 39, 40,
       41, 42, 43, 44, 45, 46, 47, 48, 49, 50, 51, 52, 53, 54, 55, 56, 57,
       58, 59, 60, 62, 63, 64, 65, 66, 67, 68, 69, 70, 71, 72, 73, 74, 75,
       76, 78, 79, 80, 81, 82, 83, 84, 85, 86, 87, 88, 89, 271, 272, 273,
       274, 275, 276, 277, 278, 279, 280, 281, 283, 284, 285, 286, 287, 288,
       289, 290, 291, 292, 293, 294, 295, 296, 297, 299, 300, 301, 302, 303,
       304, 305, 306, 307, 308, 309, 310, 311, 312, 313, 314, 315, 316, 317,
       318, 319, 320, 321, 322, 323, 324, 325, 326, 327, 328, 329, 330, 331,
       332, 333, 333, 334, 335, 336, 337, 338, 339, 340, 341, 342, 343, 344,
       345, 346, 347, 348, 348, 349, 350, 351, 352, 353, 354, 355, 356, 357,
       358, 359 >>

local_sidereal_time(gmst_deg, lon_deg) == (gmst_deg + lon_deg) % 360

compute_mc(gmst_deg, lon_deg) == McOfLst[local_sidereal_time(gmst_deg, lon_deg) + 1]

whole_sign_cusps_from_asc(asc_lon) ==
    [h \in 1 .. 12 |-> (asc_lon + (h - 1) * 30) % 360]

\* {i+1: ((asc_sign + i) % 12) * 30 for i in range(12)}
whole_sign_cusps(asc_lon) ==
    LET asc_sign == asc_lon \div 30
    IN  [h \in 1 .. 12 |-> ((asc_sign + (h - 1)) % 12) * 30]

whole_sign_house_from_asc(lon, asc_lon) ==
    (((lon - asc_lon) % 360) \div 30) + 1

whole_sign_house_nomod(lon, asc_lon) ==
    LET asc_sign == asc_lon \div 30
        body_sign == lon \div 30
    IN  (body_sign - asc_sign) + 1

whole_sign_house(lon, asc_lon) ==
    LET asc_sign == asc_lon \div 30
        body_sign == lon \div 30
    IN  ((body_sign - asc_sign) % 12) + 1

placidus_cusps_unwrapped(gmst_deg, lat_deg, lon_deg) ==
    LET mc == compute_mc(gmst_deg, lon_deg)
        Cusp(k) == EclOfRA[((mc + 30 * k) % 360) + 1]
        cusps == [h \in {10, 11, 12, 1, 2, 3} |->
                     CASE h = 10 -> mc
                       [] h = 11 -> Cusp(1)
                       [] h = 12 -> Cusp(2)
                       [] h = 1 -> Cusp(3)
                       [] h = 2 -> Cusp(4)
                       [] h = 3 -> Cusp(5)]
    IN  [h \in 1 .. 12 |->
            CASE h \in {10, 11, 12, 1, 2, 3} -> cusps[h]
              [] h \in {4, 5, 6} -> cusps[h + 6] + 180
              [] h \in {7, 8, 9} -> cusps[h - 6] + 180]

\* lat_deg is converted to radians and not used again
placidus_cusps(gmst_deg, lat_deg, lon_deg) ==
    LET mc == compute_mc(gmst_deg, lon_deg)
        \* cusp at the angle mc_rad + k * pi/6, RA = angle % (2*pi)
        Cusp(k) == EclOfRA[((mc + 30 * k) % 360) + 1]
        cusps == [h \in {10, 11, 12, 1, 2, 3} |->
                     CASE h = 10 -> mc
                       [] h = 11 -> Cusp(1)
                       [] h = 12 -> Cusp(2)
                       [] h = 1 -> Cusp(3)
                       [] h = 2 -> Cusp(4)
                       [] h = 3 -> Cusp(5)]
    IN  [h \in 1 .. 12 |->
            CASE h \in {10, 11, 12, 1, 2, 3} -> cusps[h]
              [] h \in {4, 5, 6} -> (cusps[h + 6] + 180) % 360
              [] h \in {7, 8, 9} -> (cusps[h - 6] + 180) % 360]

\* the return value None of placidus_house; houses are numbered from 1
NoHouse == 0

\* the test of one house h of the for loop
InHouse_nowrap(lon, cusps, h) ==
    LET start == cusps[h]
        end == IF h = 12 THEN cusps[1] ELSE cusps[h + 1]
    IN  start <= lon /\ lon < end

InHouse(lon, cusps, h) ==
    LET start == cusps[h]
        end == IF h = 12 THEN cusps[1] ELSE cusps[h + 1]
    IN  IF start <= end THEN start <= lon /\ lon < end
        ELSE lon >= start \/ lon < end

\* for h in range(1, 13): return the first h that passes the test
RECURSIVE HouseFrom(_, _, _)
HouseFrom(lon, cusps, h) ==
    IF h > 12 THEN NoHouse
    ELSE IF InHouse(lon, cusps, h) THEN h
    ELSE HouseFrom(lon, cusps, h + 1)

placidus_house(lon, cusps) == HouseFrom(lon, cusps, 1)

(***************************************************************************)
(* compute_ascendant.  AscOfLst*[lst + 1] is the whole degree of           *)
(* rad2deg(asc) at the local sidereal time lst, for the latitudes -90, 0,  *)
(* 51 and 90; it is 360 where asc is a negative angle that rad2deg rounds  *)
(* to 360.0, and DivisionByZero where the denominator                      *)
(* sin(lst)*cos(eps) + tan(lat)*sin(eps) is the double 0.0.                *)
(***************************************************************************)
DivisionByZero == -1

AscOfLstSouthPole ==
    << 180, 180, 180, 180, 180, 180, 180, 180, 180, 180, 180, 180, 180, 180,
       180, 180, 180, 180, 180, 180, 180, 180, 180, 180, 180, 180, 180, 180,
       180, 180, 180, 180, 180, 180, 180, 180, 180, 180, 180, 180, 180, 180,
       180, 180, 180, 180, 180, 180, 180, 180, 180, 180, 180, 180, 180, 180,
       180, 180, 180, 180, 180, 180, 180, 180, 180, 180, 180, 180, 180, 180,
       180, 180, 180, 180, 180, 180, 180, 180, 180, 180, 180, 180, 180, 180,
       180, 180, 180, 180, 180, 180, 180, 360, 360, 360, 360, 360, 360, 360,
       360, 360, 360, 360, 360, 360, 360, 360, 360, 360, 360, 360, 360, 360,
       360, 360, 360, 360, 360, 360, 360, 360, 360, 360, 360, 360, 360, 360,
       360, 360, 360, 360, 360, 360, 360, 360, 360, 360, 360, 360, 360, 360,
       360, 360, 360, 360, 360, 360, 360, 360, 360, 360, 360, 360, 360, 360,
       360, 360, 360, 360, 360, 360, 360, 360, 360, 360, 360, 360, 360, 360,
       360, 360, 360, 360, 360, 360, 360, 360, 360, 360, 360, 360, 360, 360,
       360, 360, 360, 360, 360, 360, 360, 360, 360, 360, 360, 360, 360, 360,
       360, 360, 360, 360, 360, 360, 360, 360, 360, 360, 360, 360, 360, 360,
       360, 360, 360, 360, 360, 360, 360, 360, 360, 360, 360, 360, 360, 360,
       360, 360, 360, 360, 360, 360, 360, 360, 360, 360, 360, 360, 360, 360,
       360, 360, 360, 360, 360, 360, 360, 360, 360, 360, 360, 360, 360, 360,
       360, 360, 360, 360, 360, 360, 360, 360, 360, 360, 360, 360, 360, 360,
       360, 360, 360, 360, 360, 180, 180, 180, 180, 180, 180, 180, 180, 180,
       180, 180, 180, 180, 180, 180, 180, 180, 180, 180, 180, 180, 180, 180,
       180, 180, 180, 180, 180, 180, 180, 180, 180, 180, 180, 180, 180, 180,
       180, 180, 180, 180, 180, 180, 180, 180, 180, 180, 180, 180, 180, 180,
       180, 180, 180, 180, 180, 180, 180, 180, 180, 180, 180, 180, 180, 180,
       180, 180, 180, 180, 180, 180, 180, 180, 180, 180, 180, 180, 180, 180,
       180, 180, 180, 180, 180, 180, 180, 180, 180, 180 >>

AscOfLstEquator ==
    << -1, 90, 91, 92, 93, 94, 95, 96, 97, 98, 99, 100, 101, 101, 102, 103,
       104, 105, 106, 107, 108, 109, 110, 111, 112, 113, 114, 115, 116, 116,
       117, 118, 119, 120, 121, 122, 123, 124, 125, 126, 127, 128, 129, 130,
       131, 132, 133, 134, 135, 136, 137, 138, 139, 140, 141, 142, 143, 144,
       145, 146, 147, 148, 149, 150, 152, 153, 154, 155, 156, 157, 158, 159,
       160, 161, 162, 163, 164, 165, 166, 168, 169, 170, 171, 172, 173, 174,
       175, 176, 177, 178, 180, 1, 2, 3, 4, 5, 6, 7, 8, 9, 10, 11, 13, 14,
       15, 16, 17, 18, 19, 20, 21, 22, 23, 24, 25, 26, 27, 29, 30, 31, 32,
       33, 34, 35, 36, 37, 38, 39, 40, 41, 42, 43, 44, 45, 46, 47, 48, 49,
       50, 51, 52, 53, 54, 55, 56, 57, 58, 59, 60, 61, 62, 63, 63, 64, 65,
       66, 67, 68, 69, 70, 71, 72, 73, 74, 75, 76, 77, 78, 78, 79, 80, 81,
       82, 83, 84, 85, 86, 87, 88, 89, 90, 270, 271, 272, 273, 274, 275,
       276, 277, 278, 279, 280, 281, 281, 282, 283, 284, 285, 286, 287, 288,
       289, 290, 291, 292, 293, 294, 295, 296, 296, 297, 298, 299, 300, 301,
       302, 303, 304, 305, 306, 307, 308, 309, 310, 311, 312, 313, 314, 315,
       316, 317, 318, 319, 320, 321, 322, 323, 324, 325, 326, 327, 328, 329,
       330, 332, 333, 334, 335, 336, 337, 338, 339, 340, 341, 342, 343, 344,
       345, 346, 348, 349, 350, 351, 352, 353, 354, 355, 356, 357, 358, 360,
       181, 182, 183, 184, 185, 186, 187, 188, 189, 190, 191, 193, 194, 195,
       196, 197, 198, 199, 200, 201, 202, 203, 204, 205, 206, 207, 209, 210,
       211, 212, 213, 214, 215, 216, 217, 218, 219, 220, 221, 222, 223, 224,
       225, 226, 227, 228, 229, 230, 231, 232, 233, 234, 235, 236, 237, 238,
       239, 240, 241, 242, 243, 243, 244, 245, 246, 247, 248, 249, 250, 251,
       252, 253, 254, 255, 256, 257, 258, 258, 259, 260, 261, 262, 263, 264,
       265, 266, 267, 268, 269 >>

AscOfLst51 ==
    << 116, 116, 117, 118, 119, 119, 120, 121, 122, 122, 123, 124, 124, 125,
       126, 127, 127, 128, 129, 129, 130, 131, 132, 132, 133, 134, 134, 135,
       136, 136, 137, 138, 139, 139, 140, 141, 141, 142, 143, 143, 144, 145,
       146, 146, 147, 148, 148, 149, 150, 151, 151, 152, 153, 153, 154, 155,
       155, 156, 157, 158, 158, 159, 160, 160, 161, 162, 162, 163, 164, 165,
       165, 166, 167, 167, 168, 169, 170, 170, 171, 172, 172, 173, 174, 175,
       175, 176, 177, 177, 178, 179, 180, 0, 1, 2, 2, 3, 4, 4, 5, 6, 7, 7,
       8, 9, 9, 10, 11, 12, 12, 13, 14, 14, 15, 16, 17, 17, 18, 19, 19, 20,
       21, 21, 22, 23, 24, 24, 25, 26, 26, 27, 28, 28, 29, 30, 31, 31, 32,
       33, 33, 34, 35, 36, 36, 37, 38, 38, 39, 40, 40, 41, 42, 43, 43, 44,
       45, 45, 46, 47, 47, 48, 49, 50, 50, 51, 52, 52, 53, 54, 55, 55, 56,
       57, 57, 58, 59, 60, 60, 61, 62, 63, 63, 64, 65, 66, 66, 67, 68, 69,
       69, 70, 71, 72, 72, 73, 74, 75, 76, 76, 77, 78, 79, 80, 80, 81, 82,
       83, 84, 85, 86, 86, 87, 88, 89, 270, 271, 272, 273, 274, 275, 276,
       277, 278, 279, 280, 281, 282, 283, 284, 285, 287, 288, 289, 290, 291,
       293, 294, 295, 297, 298, 299, 301, 302, 304, 305, 307, 308, 310, 312,
       313, 315, 317, 319, 320, 322, 324, 326, 328, 330, 332, 335, 337, 339,
       341, 343, 346, 348, 350, 352, 355, 357, 360, 182, 184, 187, 189, 191,
       193, 196, 198, 200, 202, 204, 207, 209, 211, 213, 215, 217, 219, 220,
       222, 224, 226, 227, 229, 231, 232, 234, 235, 237, 238, 240, 241, 242,
       244, 245, 246, 248, 249, 250, 251, 252, 254, 255, 256, 257, 258, 259,
       260, 261, 262, 263, 264, 265, 266, 267, 268, 269, 90, 91, 92, 93, 93,
       94, 95, 96, 97, 98, 99, 99, 100, 101, 102, 103, 103, 104, 105, 106,
       107, 107, 108, 109, 110, 110, 111, 112, 113, 113, 114, 115 >>

AscOfLstNorthPole ==
    << 180, 180, 180, 180, 180, 180, 180, 180, 180, 180, 180, 180, 180, 180,
       180, 180, 180, 180, 180, 180, 180, 180, 180, 180, 180, 180, 180, 180,
       180, 180, 180, 180, 180, 180, 180, 180, 180, 180, 180, 180, 180, 180,
       180, 180, 180, 180, 180, 180, 180, 180, 180, 180, 180, 180, 180, 180,
       180, 180, 180, 180, 180, 180, 180, 180, 180, 180, 180, 180, 180, 180,
       180, 180, 180, 180, 180, 180, 180, 180, 180, 180, 180, 180, 180, 180,
       180, 180, 180, 180, 180, 180, 180, 0, 0, 0, 0, 0, 0, 0, 0, 0, 0, 0,
       0, 0, 0, 0, 0, 0, 0, 0, 0, 0, 0, 0, 0, 0, 0, 0, 0, 0, 0, 0, 0, 0, 0,
       0, 0, 0, 0, 0, 0, 0, 0, 0, 0, 0, 0, 0, 0, 0, 0, 0, 0, 0, 0, 0, 0, 0,
       0, 0, 0, 0, 0, 0, 0, 0, 0, 0, 0, 0, 0, 0, 0, 0, 0, 0, 0, 0, 0, 0, 0,
       0, 0, 0, 0, 0, 0, 0, 0, 0, 0, 0, 0, 0, 0, 0, 0, 0, 0, 0, 0, 0, 0, 0,
       0, 0, 0, 0, 0, 0, 0, 0, 0, 0, 0, 0, 0, 0, 0, 0, 0, 0, 0, 0, 0, 0, 0,
       0, 0, 0, 0, 0, 0, 0, 0, 0, 0, 0, 0, 0, 0, 0, 0, 0, 0, 0, 0, 0, 0, 0,
       0, 0, 0, 0, 0, 0, 0, 0, 0, 0, 0, 0, 0, 0, 0, 0, 0, 0, 0, 0, 0, 0, 0,
       0, 0, 0, 0, 0, 0, 0, 0, 180, 180, 180, 180, 180, 180, 180, 180, 180,
       180, 180, 180, 180, 180, 180, 180, 180, 180, 180, 180, 180, 180, 180,
       180, 180, 180, 180, 180, 180, 180, 180, 180, 180, 180, 180, 180, 180,
       180, 180, 180, 180, 180, 180, 180, 180, 180, 180, 180, 180, 180, 180,
       180, 180, 180, 180, 180, 180, 180, 180, 180, 180, 180, 180, 180, 180,
       180, 180, 180, 180, 180, 180, 180, 180, 180, 180, 180, 180, 180, 180,
       180, 180, 180, 180, 180, 180, 180, 180, 180, 180 >>

AscOfLst(lat_deg) ==
    CASE lat_deg = -90 -> AscOfLstSouthPole
      [] lat_deg = 0 -> AscOfLstEquator
      [] lat_deg = 51 -> AscOfLst51
      [] lat_deg = 90 -> AscOfLstNorthPole

\* an exception that leaves the function
Raise(exc) == [type |-> "raise", exc |-> exc]

\* a float that is a longitude of the house engine, in whole degrees
Deg(d) == [type |-> "float", deg |-> d]

\* tan_asc = -cos(lst) / (sin(lst)*cos(eps) + tan(lat)*sin(eps)) raises
\* ZeroDivisionError when the denominator is 0.0
compute_ascendant(gmst_deg, lat_deg, lon_deg) ==
    LET lst == local_sidereal_time(gmst_deg, lon_deg)
        asc == AscOfLst(lat_deg)[lst + 1]
    IN  IF asc = DivisionByZero THEN Raise("ZeroDivisionError") ELSE Deg(asc)

(***************************************************************************)
(* Python values (scripts/utils/zodiac, scripts/bodies/harmonics_engine).  *)
(*                                                                         *)
(* A value is a record tagged with its Python type; None is the record     *)
(* None above.  A float holds a whole number v of units: Tick units are    *)
(* 0.1 degree, and one unit stands for a magnitude below half the spacing  *)
(* of the doubles at 360 (a double such as -1e-20).  The doubles from 256  *)
(* to 512 degrees are Ulp360 apart, the doubles drawn below that are       *)
(* exact.  A str holds its characters as a sequence, a conversion          *)
(* specifier "%d" counting as one character.                               *)
(***************************************************************************)
Tick == 64
Degree == 10 * Tick
Turn == 360 * Degree
Ulp360 == Tick

Float(v) == [type |-> "float", v |-> v]
Str(s) == [type |-> "str", s |-> s]
List == [type |-> "list"]
Dict == [type |-> "dict"]

\* the nearest double to the real number y, ties to the even neighbour
RoundToDouble(y) ==
    LET q == y \div Ulp360
        r == y % Ulp360
    IN  IF y < 256 * Degree THEN y
        ELSE IF 2 * r < Ulp360 THEN q * Ulp360
        ELSE IF 2 * r > Ulp360 THEN (q + 1) * Ulp360
        ELSE IF q % 2 = 0 THEN q * Ulp360
        ELSE (q + 1) * Ulp360

\* C fmod: exact, with the sign of x
fmod(x, m) == IF x < 0 THEN 0 - ((0 - x) % m) ELSE x % m

\* Python's x % m on floats, m > 0: fmod, then mod += m when mod is negative
float_rem(x, m) ==
    LET mod == fmod(x, m)
    IN  IF mod # 0 /\ mod < 0 THEN RoundToDouble(mod + m) ELSE mod

ZODIAC_SIGNS ==
    << "Aries", "Taurus", "Gemini", "Cancer", "Leo", "Virgo",
       "Libra", "Scorpio", "Sagittarius", "Capricorn", "Aquarius", "Pisces" >>

zodiac_sign_nearest(ecl_lon) ==
    IF ecl_lon = None THEN None
    ELSE LET index == ((ecl_lon.v + 15 * Degree) \div (30 * Degree)) % 12
         IN  Str(ZODIAC_SIGNS[index + 1])

\* index = int(ecl_lon // 30) % 12
zodiac_sign(ecl_lon) ==
    IF ecl_lon = None THEN None
    ELSE LET index == (ecl_lon.v \div (30 * Degree)) % 12
         IN  Str(ZODIAC_SIGNS[index + 1])

\* the characters of a str that are decimal digits, and their values
Digits == {"0", "1", "2", "3", "4", "5", "6", "7", "8", "9"}
DigitValue(c) ==
    CASE c = "0" -> 0 [] c = "1" -> 1 [] c = "2" -> 2 [] c = "3" -> 3
      [] c = "4" -> 4 [] c = "5" -> 5 [] c = "6" -> 6 [] c = "7" -> 7
      [] c = "8" -> 8 [] c = "9" -> 9

RECURSIVE Repeat(_, _)
Repeat(s, n) == IF n <= 0 THEN <<>> ELSE s \o Repeat(s, n - 1)

RECURSIVE Decimal(_)
Decimal(s) ==
    IF s = <<>> THEN 0
    ELSE 10 * Decimal(SubSeq(s, 1, Len(s) - 1)) + DigitValue(s[Len(s)])

\* s with its conversion specifiers replaced by the digits of 360
RECURSIVE Format360(_)
Format360(s) ==
    IF s = <<>> THEN <<>>
    ELSE (IF s[1] = "%d" THEN <<"3", "6", "0">> ELSE <<s[1]>>) \o Format360(Tail(s))

\* x * n for an int n
py_mul(x, n) ==
    CASE x.type = "float" -> Float(x.v * n)
      [] x.type = "str" -> Str(Repeat(x.s, n))
      [] x.type = "list" -> List
      [] OTHER -> Raise("TypeError")

\* x % 360: the remainder of a float, string formatting of a str with the
\* one argument 360, TypeError for the other types
py_mod360(x) ==
    CASE x.type = "raise" -> x
      [] x.type = "float" -> Float(float_rem(x.v, Turn))
      [] x.type = "str" ->
            IF Cardinality({ i \in 1 .. Len(x.s) : x.s[i] = "%d" }) = 1
            THEN Str(Format360(x.s))
            ELSE Raise("TypeError")
      [] OTHER -> Raise("TypeError")

\* float(x): a float as it is, a str parsed as a decimal numeral
py_float(x) ==
    CASE x.type = "raise" -> x
      [] x.type = "float" -> x
      [] x.type = "str" ->
            IF x.s # <<>> /\ \A i \in 1 .. Len(x.s) : x.s[i] \in Digits
            THEN Float(Decimal(x.s) * Degree)
            ELSE Raise("ValueError")
      [] OTHER -> Raise("TypeError")

\* try: return float((ecl_lon_deg * harmonic_number) % 360)
\* except Exception: return None
harmonics(ecl_lon_deg, harmonic_number) ==
    IF ecl_lon_deg = None THEN None
    ELSE LET r == py_float(py_mod360(py_mul(ecl_lon_deg, harmonic_number)))
         IN  IF r.type = "raise" THEN None ELSE r

\* harmonic numbers of generate_transits.py: range(1, 25)
HarmonicNumbers == 1 .. 24

\* the harmonic number that the key k = str(harmonic) was made from
HarmonicOfKey(k) == CHOOSE h \in HarmonicNumbers : ToString(h) = k

compute_harmonics_unreduced(base_longitude) ==
    [k \in { ToString(h) : h \in HarmonicNumbers } |->
        py_mul(base_longitude, HarmonicOfKey(k))]

\* TransitGenerator._compute_harmonics:
\* harmonics[str(harmonic)] = (base_longitude * harmonic) % 360
compute_harmonics(base_longitude) ==
    LET entries == [k \in { ToString(h) : h \in HarmonicNumbers } |->
                       py_mod360(py_mul(base_longitude, HarmonicOfKey(k)))]
    IN  IF \E k \in DOMAIN entries : entries[k].type = "raise"
        THEN Raise("TypeError")
        ELSE entries

(***************************************************************************)
(* julian_date_from_iso (scripts/utils/houses).  A timestamp text is the   *)
(* record of its fields: year, month, day, hour, minute as the numbers     *)
(* written, seconds 00, and the zone designator as text.  A Julian Date    *)
(* is a whole number of half hours (jd * 48).                              *)
(***************************************************************************)
JulianDate(jd48) == [type |-> "float", jd48 |-> jd48]

IsLeap(year) == (year % 4 = 0) /\ ((year % 100 # 0) \/ (year % 400 = 0))

DaysInMonth(year, month) ==
    CASE month \in {1, 3, 5, 7, 8, 10, 12} -> 31
      [] month \in {4, 6, 9, 11} -> 30
      [] month = 2 -> IF IsLeap(year) THEN 29 ELSE 28
      [] OTHER -> 0

\* iso_ts.replace("Z", "+00:00")
ReplaceZ(zone) == IF zone = "Z" THEN "+00:00" ELSE zone

\* datetime.fromisoformat accepts the text
Parses(ts) ==
    /\ ReplaceZ(ts.zone) = "+00:00"
    /\ ts.month \in 1 .. 12
    /\ ts.day \in 1 .. DaysInMonth(ts.year, ts.month)
    /\ ts.hour \in 0 .. 23
    /\ ts.minute \in 0 .. 59

\* the Meeus formula on the fields of a UTC datetime
MeeusJD(ts) ==
    LET year == IF ts.month <= 2 THEN ts.year - 1 ELSE ts.year
        month == IF ts.month <= 2 THEN ts.month + 12 ELSE ts.month
        A == year \div 100
        B == (2 - A) + (A \div 4)
        \* math.floor(365.25*(year + 4716)) + math.floor(30.6001*(month + 1))
        days == ((1461 * (year + 4716)) \div 4) + ((306001 * (month + 1)) \div 10000)
    IN  48 * (days + ts.day + B) + 2 * ts.hour + (ts.minute \div 30) - 73176

julian_date_from_iso_fallback(iso_ts) ==
    IF Parses(iso_ts) THEN JulianDate(MeeusJD(iso_ts))
    ELSE JulianDate(2451545 * 48)

\* no try/except: the ValueError of fromisoformat leaves the function
julian_date_from_iso(iso_ts) ==
    IF Parses(iso_ts) THEN JulianDate(MeeusJD(iso_ts))
    ELSE Raise("ValueError")

(***************************************************************************)
(* TransitGenerator (scripts/generate_transits).  The variable self is the *)
(* generator object: None before it is constructed, then the record of     *)
(* its fields generated_utc and transits.  A datetime is the record of     *)
(* its fields in UTC, whole minutes; its ISO text is the timestamp text    *)
(* of julian_date_from_iso.  An entry of transits keeps the longitude and  *)
(* the fields derived from it (sign_13, harmonics); the other placeholder  *)
(* fields are left out.                                                    *)
(***************************************************************************)
major_bodies ==
    << "Sun", "Moon", "Mercury", "Venus", "Mars",
       "Jupiter", "Saturn", "Uranus", "Neptune", "Pluto" >>

minor_bodies ==
    << "Ceres", "Pallas", "Juno", "Vesta", "Psyche", "Eros", "Amor",
       "Astraea", "Sappho", "Karma", "Hygiea", "Bacchus", "Diana",
       "Hebe", "Iris", "Flora", "Metis", "Mnemosyne", "Parthenope",
       "Egeria", "Irene", "Eunomia", "Euphrosyne", "Thalia", "Phocaea",
       "Prosperina", "Frieda", "Bellona", "Astrea", "Doris" >>

dwarf_bodies ==
    << "Eris", "Sedna", "Haumea", "Makemake", "Orcus",
       "Quaoar", "Varuna", "Ixion", "Salacia", "Typhon" >>

centaur_bodies ==
    << "Chiron", "Nessus", "Chariklo", "Pholus", "Asbolus",
       "Amphis", "Thereus", "Okyrhoe" >>

tno_bodies ==
    << "2002 AW197", "2003 VS2", "2007 OR10", "2010 GB174", "Gonggong", "Elenin" >>

fixed_stars ==
    << "Regulus", "Aldebaran", "Spica", "Antares", "Algol",
       "Sirius", "Fomalhaut", "Altair", "Vega", "Deneb",
       "Capella", "Arcturus", "Polaris", "Castor", "Pollux",
       "Procyon", "Betelgeuse", "Rigel", "Bellatrix", "Alnath",
       "Alcyone", "Pleiad", "Asterope" >>

arabic_parts ==
    << "Part_of_Fortune", "Part_of_Spirit", "Part_of_Love", "Part_of_Destiny",
       "Part_of_Victory", "Part_of_Courage", "Part_of_Intellect" >>

aether_bodies ==
    << "Aether_Primary", "Aether_Secondary", "Aether_Tertiary", "Aether_Quaternary" >>

\* the eight _generate_* methods in the order generate_transits calls them,
\* each with the fields its entries derive from the longitude
BodyGroups ==
    << [bodies |-> major_bodies, derived |-> {"sign_13", "harmonics"}],
       [bodies |-> minor_bodies, derived |-> {"sign_13"}],
       [bodies |-> dwarf_bodies, derived |-> {"sign_13"}],
       [bodies |-> centaur_bodies, derived |-> {"sign_13"}],
       [bodies |-> tno_bodies, derived |-> {"sign_13"}],
       [bodies |-> fixed_stars, derived |-> {}],
       [bodies |-> arabic_parts, derived |-> {}],
       [bodies |-> aether_bodies, derived |-> {}] >>

\* hash(body): one value per text for the life of the process; the model
\* takes a multiple of the body's position in the lists
AllBodies ==
    major_bodies \o minor_bodies \o dwarf_bodies \o centaur_bodies \o
    tno_bodies \o fixed_stars \o arabic_parts \o aether_bodies
hash(body) == 79190 * (CHOOSE i \in 1 .. Len(AllBodies) : AllBodies[i] = body)

\* (hash(body) % 36000) / 100
placeholder_longitude(body) == Float(((hash(body) % 36000) \div 10) * Tick)

signs_13 ==
    << "Aries", "Taurus", "Gemini", "Cancer", "Leo", "Virgo",
       "Libra", "Scorpio", "Ophiuchus", "Sagittarius", "Capricorn",
       "Aquarius", "Pisces" >>

\* sign_index = int(longitude / (360 / 13)) % 13
longitude_to_sign_13(longitude) ==
    signs_13[(((13 * longitude.v) \div Turn) % 13) + 1]

\* timestamp.isoformat() of a datetime in UTC
isoformat(dt) ==
    [year |-> dt.year, month |-> dt.month, day |-> dt.day, hour |-> dt.hour,
     minute |-> dt.minute, zone |-> "+00:00"]

\* the dict literal assigned to self.transits[body]: its values are
\* evaluated before the assignment, and sign_13 and harmonics read
\* self.transits[body]["longitude"], which raises KeyError for a body that
\* has no entry yet
Entry(transits, body, derived) ==
    IF derived # {} /\ body \notin DOMAIN transits THEN Raise("KeyError")
    ELSE IF derived = {"sign_13", "harmonics"}
    THEN [longitude |-> placeholder_longitude(body),
          sign_13 |-> longitude_to_sign_13(transits[body].longitude),
          harmonics |-> compute_harmonics(transits[body].longitude)]
    ELSE IF derived = {"sign_13"}
    THEN [longitude |-> placeholder_longitude(body),
          sign_13 |-> longitude_to_sign_13(transits[body].longitude)]
    ELSE [longitude |-> placeholder_longitude(body)]

\* the for loops of the _generate_* methods, from body i of group g on;
\* st is the transits dict so far and whether an exception has left the call
RECURSIVE Generate(_, _, _)
Generate(st, g, i) ==
    IF st.raised \/ g > Len(BodyGroups) THEN st
    ELSE IF i > Len(BodyGroups[g].bodies) THEN Generate(st, g + 1, 1)
    ELSE LET body == BodyGroups[g].bodies[i]
             entry == Entry(st.transits, body, BodyGroups[g].derived)
         IN  IF "type" \in DOMAIN entry
             THEN [transits |-> st.transits, raised |-> TRUE]
             ELSE Generate([transits |-> Put(st.transits, body, entry),
                            raised |-> FALSE], g, i + 1)

\* self.transits = {}
NoTransits == [body \in {} |-> None]

\* generate_transits on the datetime timestamp: the generator's fields
\* after the call, and the feed of _build_feed or the exception
generate_transits(timestamp) ==
    LET st == Generate([transits |-> NoTransits, raised |-> FALSE], 1, 1)
        after == [generated_utc |-> timestamp, transits |-> st.transits]
    IN  [self |-> after,
         ret |-> IF st.raised THEN Raise("KeyError")
                 ELSE [type |-> "dict",
                       generated_utc |-> isoformat(after.generated_utc),
                       transits |-> after.transits]]

(***************************************************************************)
(* pick_dominant_aspects (scripts/interpretation/oracle_engine).  A dict   *)
(* is given as the sequence of its items in insertion order, each item the *)
(* record of its key (pair) and its value (detail).                        *)
(***************************************************************************)
\* body names that the bodies of a grid are drawn from
DominantNames == <<"Sun", "Moon", "Mars", "Venus", "Alpha-Centauri">>

\* name.split("-") for a body name
NameParts(name) ==
    IF name = "Alpha-Centauri" THEN <<"Alpha", "Centauri">> ELSE <<name>>

\* pair.split("-") for a key f"{a}-{b}" of the grid: the parts of a, then
\* the parts of b
split(pair) ==
    LET names == { DominantNames[i] : i \in 1 .. Len(DominantNames) }
        p == CHOOSE p \in names \X names : key(p[1], p[2]) = pair
    IN  NameParts(p[1]) \o NameParts(p[2])

\* aspects.items() of a grid that compute_all_aspects returned: a key is
\* inserted when the first pair that forms it is found to have an aspect
RECURSIVE items(_, _, _)
items(grid, pairs, seen) ==
    IF pairs = <<>> THEN <<>>
    ELSE LET k == key(pairs[1][1], pairs[1][2])
         IN  IF k \in DOMAIN grid /\ k \notin seen
             THEN <<[pair |-> k, detail |-> grid[k]]>>
                      \o items(grid, Tail(pairs), seen \cup {k})
             ELSE items(grid, Tail(pairs), seen)

\* the for loop over aspects.items(); a, b = pair.split("-") raises
\* ValueError unless the key has exactly two parts
RECURSIVE Dominant(_, _, _, _)
Dominant(body, its, i, dominant) ==
    IF i > Len(its) THEN [type |-> "list", items |-> dominant]
    ELSE LET parts == split(its[i].pair)
             detail == its[i].detail
         IN  IF Len(parts) # 2 THEN Raise("ValueError")
             ELSE IF parts[1] = body
             THEN Dominant(body, its, i + 1,
                           Append(dominant, [other |-> parts[2], type |-> detail.type,
                                             orb |-> detail.orb]))
             ELSE IF parts[2] = body
             THEN Dominant(body, its, i + 1,
                           Append(dominant, [other |-> parts[1], type |-> detail.type,
                                             orb |-> detail.orb]))
             ELSE Dominant(body, its, i + 1, dominant)

\* dominant.sort(key=lambda x: x["orb"]): a stable sort
RECURSIVE SortByOrb(_)
SortByOrb(seq) ==
    IF seq = <<>> THEN <<>>
    ELSE LET sorted == SortByOrb(SubSeq(seq, 1, Len(seq) - 1))
             x == seq[Len(seq)]
             n == Cardinality({ i \in 1 .. Len(sorted) : sorted[i].orb <= x.orb })
         IN  SubSeq(sorted, 1, n) \o <<x>> \o SubSeq(sorted, n + 1, Len(sorted))

pick_dominant_aspects(body, its) ==
    LET dominant == Dominant(body, its, 1, <<>>)
    IN  IF dominant.type = "raise" THEN dominant
        ELSE LET sorted == SortByOrb(dominant.items)
             IN  [type |-> "list", items |-> SubSeq(sorted, 1, Min(3, Len(sorted)))]

(***************************************************************************)
(* Inputs                                                                  *)
(***************************************************************************)
\* EclipticPosition.longitude in whole degrees
Longitudes == 0 .. 359

\* arguments of angle_diff, in and out of [0, 360)
AngleLons == { AngleStep * k : k \in (0 - ((360 * MaxTurns) \div AngleStep)) ..
                                     (((360 * (MaxTurns + 1)) - 1) \div AngleStep) }

\* second longitude of a compute_aspect call
BLons == {0, 100, 275}

\* body names of generate_transits.py: two luminaries, two fixed stars, a TNO
PairNames == {"Sun", "Moon", "Regulus", "Algol", "Sedna"}

HarmValues == {-4, 17}

\* names, longitudes and harmonic values of the bodies of a
\* compute_all_aspects mapping
GridNames == {"Sun", "Moon", "Regulus", "Sedna"}
GridLons == {10, 100, 150, 190}
GridHarms == {17}

\* gmst(jd) of the Julian Dates of the calls, and observer positions
GmstValues == 0 .. 359
ObserverLons == {-75, 0}
ObserverLats == {51}

\* floats given as longitudes: every 0.1 degree of the turns around
\* [0, 360), and the two doubles nearest to zero that the model draws
FloatLons ==
    { Tick * k : k \in (0 - (3600 * MaxTurns)) .. (3600 * (MaxTurns + 1)) }
        \cup {-1, 1}

\* values given to harmonics that are not numbers: strings of at most
\* MaxStrLen characters, a list and a dict
Chars == {"%d", "5", "x"}
Strings == UNION { [1 .. n -> Chars] : n \in 0 .. MaxStrLen }
NonNumbers == { Str(s) : s \in Strings } \cup {List, Dict}

\* timestamp texts: fields in and out of their ranges, leap and common
\* years, and a zone designator that is no UTC offset
Timestamps ==
    [year : {1999, 2000, 2024, 2100}, month : 0 .. 13,
     day : {0, 1, 28, 29, 30, 31, 32}, hour : {0, 12, 23, 25},
     minute : {0, 30, 60}, zone : {"Z", "+00:00", "UTC"}]

\* observer latitudes given to compute_ascendant: the poles, the equator
\* and a middle latitude
AscLats == {-90, 0, 51, 90}

\* arguments of the calls of a sequence of calls: two sidereal times, an
\* observer at Greenwich, three longitudes, three mappings of bodies
SeqGmst == {0, 100}
SeqLons == {None, Float(0), Float(3599 * Tick)}
SeqHarmonicLons == {Float(-1), Float(100 * Degree), Str(<<"%d">>)}
SeqHarmonicNumbers == {1, 2}
SeqMappings ==
    { << [name |-> "Sun", lon |-> 10, harmonics |-> 17],
         [name |-> "Moon", lon |-> 100, harmonics |-> 17] >>,
      << [name |-> "Sun", lon |-> 10, harmonics |-> 17],
         [name |-> "Regulus", lon |-> 150, harmonics |-> 17] >>,
      << [name |-> "Moon", lon |-> 100, harmonics |-> 17],
         [name |-> "Sedna", lon |-> 190, harmonics |-> 17] >> }

\* datetimes given to generate_transits and read from the clock
Datetimes ==
    [year : {2000, 2024}, month : {1, 6, 12}, day : {1, 15},
     hour : {0, 12}, minute : {0, 30}]

\* longitudes of the bodies of a grid given to pick_dominant_aspects
DominantLons == {10, 12, 100, 145}

(***************************************************************************)
(* State machine                                                           *)
(***************************************************************************)
Init ==
    /\ op = "idle"
    /\ args = <<>>
    /\ ret = <<>>
    /\ bodies = <<>>
    /\ outcome = "pending"
    /\ aspects = EmptyGrid
    /\ evaluated = <<>>
    /\ calls = <<>>
    /\ self = None

GridVars == <<bodies, outcome, aspects, evaluated>>
CallVars == <<op, args, ret>>

CallAngleDiff ==
    /\ op = "idle"
    /\ \E a \in AngleLons, b \in AngleLons :
          /\ op' = "angle_diff"
          /\ args' = [a |-> a, b |-> b]
          /\ ret' = angle_diff(a, b)
    /\ UNCHANGED <<GridVars, calls, self>>

CallComputeAspect ==
    /\ op = "idle"
    /\ \E name_a \in PairNames, name_b \in PairNames,
          a_lon \in Longitudes, b_lon \in BLons,
          a_harm \in HarmValues, b_harm \in HarmValues :
          \E r \in compute_aspect(name_a, a_lon, a_harm, name_b, b_lon, b_harm) :
             /\ name_a # name_b
             /\ op' = "compute_aspect"
             /\ args' = [name_a |-> name_a, a_lon |-> a_lon, a_harm |-> a_harm,
                         name_b |-> name_b, b_lon |-> b_lon, b_harm |-> b_harm]
             /\ ret' = r
    /\ UNCHANGED <<GridVars, calls, self>>

\* the caller fills the mapping; dict order is insertion order
AddBody ==
    /\ outcome = "pending"
    /\ Len(bodies) < MaxBodies
    /\ \E name \in GridNames \ { bodies[i].name : i \in 1 .. Len(bodies) },
          harm \in GridHarms :
          \/ \E lon \in GridLons :
                bodies' = Append(bodies, [name |-> name, lon |-> lon, harmonics |-> harm])
          \/ bodies' = Append(bodies, [name |-> name, harmonics |-> harm])
    /\ UNCHANGED <<outcome, aspects, evaluated>>
    /\ UNCHANGED <<CallVars, calls, self>>

ComputeAllAspects ==
    /\ outcome = "pending"
    /\ \E st \in compute_all_aspects(bodies) :
          /\ outcome' = IF st.raised THEN "raised" ELSE "returned"
          /\ aspects' = IF st.raised THEN EmptyGrid ELSE st.aspects
          /\ evaluated' = st.evaluated
    /\ UNCHANGED bodies
    /\ UNCHANGED <<CallVars, calls, self>>

CallWholeSignCusps ==
    /\ op = "idle"
    /\ \E asc_lon \in Longitudes :
          /\ op' = "whole_sign_cusps"
          /\ args' = [asc_lon |-> asc_lon]
          /\ ret' = whole_sign_cusps(asc_lon)
    /\ UNCHANGED <<GridVars, calls, self>>

CallWholeSignHouse ==
    /\ op = "idle"
    /\ \E lon \in Longitudes, asc_lon \in Longitudes :
          /\ op' = "whole_sign_house"
          /\ args' = [lon |-> lon, asc_lon |-> asc_lon]
          /\ ret' = whole_sign_house(lon, asc_lon)
    /\ UNCHANGED <<GridVars, calls, self>>

CallPlacidusCusps ==
    /\ op = "idle"
    /\ \E gmst_deg \in GmstValues, lat_deg \in ObserverLats, lon_deg \in ObserverLons :
          /\ op' = "placidus_cusps"
          /\ args' = [gmst_deg |-> gmst_deg, lat_deg |-> lat_deg, lon_deg |-> lon_deg]
          /\ ret' = placidus_cusps(gmst_deg, lat_deg, lon_deg)
    /\ UNCHANGED <<GridVars, calls, self>>

\* placidus_house on a cusp set that placidus_cusps returned
CallPlacidusHouse ==
    /\ op = "idle"
    /\ \E gmst_deg \in GmstValues, lat_deg \in ObserverLats, lon_deg \in ObserverLons,
          lon \in Longitudes :
          LET cusps == placidus_cusps(gmst_deg, lat_deg, lon_deg)
          IN  /\ op' = "placidus_house"
              /\ args' = [lon |-> lon, cusps |-> cusps]
              /\ ret' = placidus_house(lon, cusps)
    /\ UNCHANGED <<GridVars, calls, self>>

CallZodiacSign ==
    /\ op = "idle"
    /\ \E ecl_lon \in { Float(v) : v \in FloatLons } \cup {None} :
          /\ op' = "zodiac_sign"
          /\ args' = [ecl_lon |-> ecl_lon]
          /\ ret' = zodiac_sign(ecl_lon)
    /\ UNCHANGED <<GridVars, calls, self>>

CallHarmonics ==
    /\ op = "idle"
    /\ \E ecl_lon_deg \in { Float(v) : v \in FloatLons } \cup NonNumbers \cup {None},
          harmonic_number \in HarmonicNumbers :
          /\ op' = "harmonics"
          /\ args' = [ecl_lon_deg |-> ecl_lon_deg, harmonic_number |-> harmonic_number]
          /\ ret' = harmonics(ecl_lon_deg, harmonic_number)
    /\ UNCHANGED <<GridVars, calls, self>>

CallComputeHarmonics ==
    /\ op = "idle"
    /\ \E v \in FloatLons :
          /\ op' = "_compute_harmonics"
          /\ args' = [base_longitude |-> Float(v)]
          /\ ret' = compute_harmonics(Float(v))
    /\ UNCHANGED <<GridVars, calls, self>>

CallJulianDateFromIso ==
    /\ op = "idle"
    /\ \E iso_ts \in Timestamps :
          /\ op' = "julian_date_from_iso"
          /\ args' = [iso_ts |-> iso_ts]
          /\ ret' = julian_date_from_iso(iso_ts)
    /\ UNCHANGED <<GridVars, calls, self>>

CallComputeAscendant ==
    /\ op = "idle"
    /\ \E gmst_deg \in GmstValues, lat_deg \in AscLats, lon_deg \in ObserverLons :
          /\ op' = "compute_ascendant"
          /\ args' = [gmst_deg |-> gmst_deg, lat_deg |-> lat_deg, lon_deg |-> lon_deg]
          /\ ret' = compute_ascendant(gmst_deg, lat_deg, lon_deg)
    /\ UNCHANGED <<GridVars, calls, self>>

CallLocalSiderealTime ==
    /\ op = "idle"
    /\ \E gmst_deg \in GmstValues, lon_deg \in ObserverLons :
          /\ op' = "local_sidereal_time"
          /\ args' = [gmst_deg |-> gmst_deg, lon_deg |-> lon_deg]
          /\ ret' = local_sidereal_time(gmst_deg, lon_deg)
    /\ UNCHANGED <<GridVars, calls, self>>

CallComputeMc ==
    /\ op = "idle"
    /\ \E gmst_deg \in GmstValues, lon_deg \in ObserverLons :
          /\ op' = "compute_mc"
          /\ args' = [gmst_deg |-> gmst_deg, lon_deg |-> lon_deg]
          /\ ret' = compute_mc(gmst_deg, lon_deg)
    /\ UNCHANGED <<GridVars, calls, self>>

\* one more call of a sequence: the call is made, and its arguments and
\* result are appended to the history
Logged(o, a, r) ==
    /\ Len(calls) < MaxCalls
    /\ op' = o
    /\ args' = a
    /\ ret' = r
    /\ calls' = Append(calls, [op |-> o, args |-> a, ret |-> r])

ThenComputeAscendant ==
    /\ \E gmst_deg \in SeqGmst :
          Logged("compute_ascendant",
                 [gmst_deg |-> gmst_deg, lat_deg |-> 51, lon_deg |-> 0],
                 compute_ascendant(gmst_deg, 51, 0))
    /\ UNCHANGED <<GridVars, self>>

ThenComputeMc ==
    /\ \E gmst_deg \in SeqGmst :
          Logged("compute_mc", [gmst_deg |-> gmst_deg, lon_deg |-> 0],
                 compute_mc(gmst_deg, 0))
    /\ UNCHANGED <<GridVars, self>>

ThenWholeSignCusps ==
    /\ \E asc_lon \in SeqGmst :
          Logged("whole_sign_cusps", [asc_lon |-> asc_lon], whole_sign_cusps(asc_lon))
    /\ UNCHANGED <<GridVars, self>>

ThenPlacidusCusps ==
    /\ \E gmst_deg \in SeqGmst :
          Logged("placidus_cusps",
                 [gmst_deg |-> gmst_deg, lat_deg |-> 51, lon_deg |-> 0],
                 placidus_cusps(gmst_deg, 51, 0))
    /\ UNCHANGED <<GridVars, self>>

ThenZodiacSign ==
    /\ \E ecl_lon \in SeqLons :
          Logged("zodiac_sign", [ecl_lon |-> ecl_lon], zodiac_sign(ecl_lon))
    /\ UNCHANGED <<GridVars, self>>

ThenHarmonics ==
    /\ \E ecl_lon_deg \in SeqHarmonicLons, harmonic_number \in SeqHarmonicNumbers :
          Logged("harmonics",
                 [ecl_lon_deg |-> ecl_lon_deg, harmonic_number |-> harmonic_number],
                 harmonics(ecl_lon_deg, harmonic_number))
    /\ UNCHANGED <<GridVars, self>>

\* the returned dict is the caller's from then on
ThenComputeAllAspects ==
    \E bs \in SeqMappings :
       \E st \in compute_all_aspects(bs) :
          /\ Logged("compute_all_aspects", [bodies |-> bs],
                    IF st.raised THEN Raise("TypeError") ELSE st.aspects)
          /\ bodies' = bs
          /\ outcome' = IF st.raised THEN "raised" ELSE "returned"
          /\ aspects' = IF st.raised THEN aspects ELSE st.aspects
          /\ evaluated' = st.evaluated
          /\ UNCHANGED self

\* TransitGenerator(): generated_utc = datetime.now(timezone.utc), transits = {}
Construct ==
    /\ self = None
    /\ \E now \in Datetimes : self' = [generated_utc |-> now, transits |-> NoTransits]
    /\ UNCHANGED <<CallVars, GridVars, calls>>

\* generator.generate_transits(timestamp); a timestamp of None is replaced
\* by the clock reading now
GenerateTransits ==
    /\ self # None
    /\ \E timestamp \in Datetimes \cup {None}, now \in Datetimes :
          LET r == generate_transits(IF timestamp = None THEN now ELSE timestamp)
          IN  /\ timestamp # None => now = timestamp
              /\ op' = "generate_transits"
              /\ args' = [timestamp |-> timestamp, now |-> now]
              /\ ret' = r.ret
              /\ self' = r.self
    /\ UNCHANGED <<GridVars, calls>>

\* pick_dominant_aspects(body, aspects) on a grid that compute_all_aspects
\* returned for a mapping of the bodies DominantNames
CallPickDominantAspects ==
    /\ op = "idle"
    /\ \E lons \in [1 .. Len(DominantNames) -> DominantLons] :
          LET bs == [i \in 1 .. Len(DominantNames) |->
                        [name |-> DominantNames[i], lon |-> lons[i],
                         harmonics |-> 17]]
          IN  \E st \in compute_all_aspects(bs), i \in 1 .. Len(DominantNames) :
                 LET its == items(st.aspects, st.evaluated, {})
                 IN  /\ ~st.raised
                     /\ op' = "pick_dominant_aspects"
                     /\ args' = [body |-> DominantNames[i], aspects |-> its]
                     /\ ret' = pick_dominant_aspects(DominantNames[i], its)
    /\ UNCHANGED <<GridVars, calls, self>>

NextAspect == CallAngleDiff \/ CallComputeAspect
SpecAspect == Init /\ [][NextAspect]_vars

NextGrid == AddBody \/ ComputeAllAspects
SpecGrid == Init /\ [][NextGrid]_vars

NextWholeSign == CallWholeSignCusps \/ CallWholeSignHouse
SpecWholeSign == Init /\ [][NextWholeSign]_vars

NextPlacidus == CallPlacidusCusps \/ CallPlacidusHouse
SpecPlacidus == Init /\ [][NextPlacidus]_vars

NextZodiac == CallZodiacSign
SpecZodiac == Init /\ [][NextZodiac]_vars

NextHarmonics == CallHarmonics \/ CallComputeHarmonics
SpecHarmonics == Init /\ [][NextHarmonics]_vars

NextJulian == CallJulianDateFromIso
SpecJulian == Init /\ [][NextJulian]_vars

NextAscendant == CallComputeAscendant
SpecAscendant == Init /\ [][NextAscendant]_vars

\* the functions that return longitudes
NextLongitudes ==
    \/ CallLocalSiderealTime
    \/ CallComputeMc
    \/ CallComputeAscendant
    \/ CallWholeSignCusps
    \/ CallPlacidusCusps
    \/ CallHarmonics
SpecLongitudes == Init /\ [][NextLongitudes]_vars

\* sequences of calls to the core functions, in any order
NextCalls ==
    \/ ThenComputeAscendant
    \/ ThenComputeMc
    \/ ThenWholeSignCusps
    \/ ThenPlacidusCusps
    \/ ThenZodiacSign
    \/ ThenHarmonics
    \/ ThenComputeAllAspects
SpecCalls == Init /\ [][NextCalls]_vars

NextGenerator == Construct \/ GenerateTransits
SpecGenerator == Init /\ [][NextGenerator]_vars

NextDominant == CallPickDominantAspects
SpecDominant == Init /\ [][NextDominant]_vars

(***************************************************************************)
(* Properties of the aspect engine                                         *)
(***************************************************************************)
BodyNames == { bodies[i].name : i \in 1 .. Len(bodies) }
IndexPairs == { p \in (1 .. Len(bodies)) \X (1 .. Len(bodies)) : p[1] < p[2] }
AspectOfPair(bs, p) ==
    compute_aspect(bs[p[1]].name, bs[p[1]].lon, bs[p[1]].harmonics,
                   bs[p[2]].name, bs[p[2]].lon, bs[p[2]].harmonics)
FoundPairs == { p \in IndexPairs : AspectOfPair(bodies, p) # {None} }

\* C1: when compute_all_aspects returns, compute_aspect has been evaluated
\* once for each pair of bodies (i-th, j-th) with i < j in input order and
\* for nothing else, and the grid holds one record under its own key for
\* each pair with an aspect and no other key.
ThmC1 ==
    outcome = "returned" =>
       /\ Len(evaluated) = Cardinality(IndexPairs)
       /\ \A p \in IndexPairs :
             Cardinality({ k \in 1 .. Len(evaluated) :
                           evaluated[k] = <<bodies[p[1]].name, bodies[p[2]].name>> }) = 1
       /\ DOMAIN aspects = { key(bodies[p[1]].name, bodies[p[2]].name) : p \in FoundPairs }
       /\ Cardinality(DOMAIN aspects) = Cardinality(FoundPairs)
       /\ \A p \in FoundPairs :
             aspects[key(bodies[p[1]].name, bodies[p[2]].name)] \in AspectOfPair(bodies, p)

\* three bodies, of which two pairs form an aspect and one pair does not
WitC1 ==
    /\ outcome = "returned"
    /\ Len(bodies) = 3
    /\ Len(evaluated) = 3
    /\ Cardinality(DOMAIN aspects) = 2

\* per-body tolerance of the specification's orb classes
BodyOrb(name) ==
    CASE name = "Sun" -> 6
      [] name = "Moon" -> 4
      [] name \in {"Mercury", "Venus", "Mars", "Jupiter", "Saturn"} -> 3
      [] name \in {"Uranus", "Neptune", "Pluto"} -> 2
      [] OTHER -> 1

CexC3 ==
    (outcome # "pending" /\ \E i \in 1 .. Len(bodies) : ~HasLon(bodies[i])) =>
       /\ outcome = "returned"
       /\ aspects \in { st.aspects : st \in compute_all_aspects(SelectSeq(bodies, HasLon)) }

\* the canonical aspects in their fixed order
Canonical == << <<"conjunction", 0>>, <<"sextile", 60>>, <<"square", 90>>,
                <<"trine", 120>>, <<"opposition", 180>> >>

\* C4: compute_aspect returns the canonical aspect of smallest orb among
\* those within tolerance, the first in canonical order among several, and
\* None exactly when none is within tolerance; longitudes 10 and 100 give a
\* square of orb 0.
ThmC4 ==
    op = "compute_aspect" =>
       LET sep == angle_diff(args.a_lon, args.b_lon)
           OrbOf(k) == Abs(sep - Canonical[k][2])
           within == { k \in 1 .. 5 : OrbOf(k) <= 10 }
       IN  /\ (within = {}) <=> (ret = None)
           /\ within # {} =>
                 LET first == CHOOSE k \in within : \A m \in within : k <= m
                 IN  /\ ret.type = Canonical[first][1]
                     /\ ret.exact = Canonical[first][2]
                     /\ ret.orb = OrbOf(first)
                     /\ \A m \in 1 .. 5 : OrbOf(first) <= OrbOf(m)
           /\ ({args.a_lon, args.b_lon} = {10, 100}) =>
                 (ret # None /\ ret.type = "square" /\ ret.orb = 0)

\* the example: longitudes 10 and 100 give a square
WitC4 ==
    /\ op = "compute_aspect"
    /\ args.a_lon = 10
    /\ args.b_lon = 100
    /\ ret # None
    /\ ret.type = "square"

\* unordered pair, aspect type and orb of every record of a grid
Triples(g) ==
    { <<{q[1], q[2]}, g[key(q[1], q[2])].type, g[key(q[1], q[2])].orb>> :
      q \in { r \in BodyNames \X BodyNames : key(r[1], r[2]) \in DOMAIN g } }

\* C5: every permutation of the input order gives the same outcome and the
\* same set of (unordered pair, aspect type, orb) triples.
ThmC5 ==
    outcome # "pending" =>
       \A p \in Permutations(1 .. Len(bodies)) :
          \A st \in compute_all_aspects([i \in 1 .. Len(bodies) |-> bodies[p[i]]]) :
             /\ st.raised <=> (outcome = "raised")
             /\ ~st.raised => Triples(st.aspects) = Triples(aspects)

\* a returned grid over three bodies at three different longitudes
WitC5 ==
    /\ outcome = "returned"
    /\ Len(bodies) >= 3
    /\ aspects # EmptyGrid
    /\ bodies[1].lon > bodies[2].lon
    /\ bodies[2].lon > bodies[3].lon

\* angular separation as the specification defines it
Separation(a, b) ==
    LET d == Abs(a - b) % 360
    IN  IF d > 180 THEN 360 - d ELSE d

\* C6: angle_diff returns d = |lon_a - lon_b| mod 360, or 360 - d when
\* d > 180, a value in [0, 180], for any two longitudes.
CexC6 ==
    op = "angle_diff" =>
       /\ ret = Separation(args.a, args.b)
       /\ ret >= 0
       /\ ret <= 180

\* 1.0 for a name that is not in the table, else its entry (tenths)
EntryOrOne(table, name) == IF name \in DOMAIN table THEN table[name] ELSE 10

\* base_power[type] x max(0, 1 - orb/10) x mean harmonic multiplier x star
\* multiplier x TNO multiplier of a call and its record, as a fraction
Product(a, r) ==
    MulFrac(MulFrac(MulFrac(MulFrac(MulFrac(MulFrac(
        [n |-> BASE_POWER[r.type], d |-> 100],
        Max(0, 10 - r.orb), 10),
        (20 + (Abs(a.a_harm) % 10)) + (20 + (Abs(a.b_harm) % 10)), 40),
        EntryOrOne(STAR_MULTIPLIER, a.name_a), 10),
        EntryOrOne(STAR_MULTIPLIER, a.name_b), 10),
        EntryOrOne(TNO_MULTIPLIER, a.name_a), 10),
        EntryOrOne(TNO_MULTIPLIER, a.name_b), 10)

\* v is a nearest integer to the fraction f times scale
IsRounded(v, f, scale) ==
    LET x == MulFrac(f, scale, 1)
    IN  2 * Abs(v * x.d - x.n) <= x.d

\* C7 as stated: the record's score is the product itself and its
\* intensity is that score times 100.
CexC7 ==
    (op = "compute_aspect" /\ ret # None) =>
       LET x == MulFrac(Product(args, ret), 10000, 1)
       IN  /\ ret.score * x.d = x.n
           /\ ret.intensity * 10 = ret.score

\* C7 amended: the record's score is the product rounded to 4 decimal
\* places, and its intensity is the unrounded product times 100 rounded to
\* 1 decimal place.
ThmC7 ==
    (op = "compute_aspect" /\ ret # None) =>
       /\ IsRounded(ret.score, Product(args, ret), 10000)
       /\ IsRounded(ret.intensity, Product(args, ret), 1000)

\* a fixed star and a TNO in aspect whose product has more than 4 decimals
WitC7 ==
    /\ op = "compute_aspect"
    /\ ret # None
    /\ args.name_a = "Regulus"
    /\ args.name_b = "Sedna"
    /\ ret.score > 0
    /\ MulFrac(Product(args, ret), 10000, 1).d > 1
    /\ ret.intensity * 10 # ret.score

(***************************************************************************)
(* Properties of the house engine                                          *)
(***************************************************************************)
\* C8: whole_sign_house returns a house in 1..12, and the k-th sign start
\* counted in zodiac order from the start of the Ascendant's sign is in
\* house k, for k = 1, ..., 12 (so the twelve sign starts take the twelve
\* houses once each).
ThmC8 ==
    op = "whole_sign_house" =>
       /\ ret \in 1 .. 12
       /\ \A k \in 1 .. 12 :
             args.lon = ((args.asc_lon - (args.asc_lon % 30)) + 30 * (k - 1)) % 360
                => ret = k

\* a sign start behind the Ascendant's sign in longitude: Aries 0 seen from
\* an Ascendant in Pisces is the second house
WitC8 ==
    /\ op = "whole_sign_house"
    /\ args.asc_lon = 340
    /\ args.lon = 0
    /\ ret = 2

\* C9: whole_sign_cusps returns cusps for exactly the houses 1..12, house 1
\* at the start of the Ascendant's sign and house i at sign
\* (Ascendant sign + i - 1) mod 12; an Ascendant of 35 gives 30, 60, ..., 330, 0.
ThmC9 ==
    op = "whole_sign_cusps" =>
       /\ DOMAIN ret = 1 .. 12
       /\ ret[1] = args.asc_lon - (args.asc_lon % 30)
       /\ \A i \in 1 .. 12 : ret[i] = (ret[1] + 30 * (i - 1)) % 360
       /\ args.asc_lon = 35 =>
             ret = <<30, 60, 90, 120, 150, 180, 210, 240, 270, 300, 330, 0>>

\* the example: Ascendant at 35 in Taurus, twelfth cusp at 0
WitC9 ==
    /\ op = "whole_sign_cusps"
    /\ args.asc_lon = 35
    /\ ret[1] = 30
    /\ ret[12] = 0

\* C23: the two whole-sign operations agree.  With the cusps that
\* whole_sign_cusps gives for an Ascendant longitude in [0, 360), the cusp of
\* house i is assigned house i by whole_sign_house, and so is every body
\* longitude from that cusp up to, not including, 30 degrees past it, for
\* i = 1, ..., 12.
ThmC23 ==
    op = "whole_sign_house" =>
       LET cusps == whole_sign_cusps(args.asc_lon)
       IN  \A i \in 1 .. 12 :
              /\ args.lon = cusps[i] => ret = i
              /\ (cusps[i] <= args.lon /\ args.lon < cusps[i] + 30) => ret = i

\* a body inside, not at the start of, the sign after the one that wraps
\* past 360: 45 degrees seen from an Ascendant of 340 lies in house 3, whose
\* cusp is 30
WitC23 ==
    /\ op = "whole_sign_house"
    /\ args.asc_lon = 340
    /\ args.lon = 45
    /\ whole_sign_cusps(args.asc_lon)[3] = 30
    /\ ret = 3

\* the interval from cusp h to the next cusp, wrapping at 360, holds lon
IntervalHolds(cusps, h, lon) ==
    LET from == cusps[h]
        to == cusps[(h % 12) + 1]
    IN  \/ from <= to /\ from <= lon /\ lon < to
        \/ from > to /\ (lon >= from \/ lon < to)

\* C10: on every cusp set of placidus_cusps and every longitude,
\* placidus_house returns a house in 1..12 whose interval holds the
\* longitude, and None only if no interval holds it.
ThmC10 ==
    op = "placidus_house" =>
       /\ ret \in 1 .. 12
       /\ IntervalHolds(args.cusps, ret, args.lon)
       /\ ret = NoHouse => \A h \in 1 .. 12 : ~IntervalHolds(args.cusps, h, args.lon)

\* a longitude placed by an interval that wraps through 360
WitC10 ==
    /\ op = "placidus_house"
    /\ ret \in 1 .. 12
    /\ args.cusps[ret] > args.cusps[(ret % 12) + 1]
    /\ args.lon < args.cusps[(ret % 12) + 1]

(***************************************************************************)
(* Properties of zodiac_sign and harmonics                                 *)
(***************************************************************************)
SignOrder ==
    << "Aries", "Taurus", "Gemini", "Cancer", "Leo", "Virgo",
       "Libra", "Scorpio", "Sagittarius", "Capricorn", "Aquarius", "Pisces" >>

\* the whole numbers k that floor(lon / 30) takes on the longitudes drawn
SignSteps == (0 - (12 * (MaxTurns + 1))) .. (12 * (MaxTurns + 2))

\* C11: zodiac_sign returns, for every numeric longitude, the sign at index
\* floor(lon / 30) mod 12 of the list Aries .. Pisces (so 0 gives Aries and
\* 359.9 gives Pisces), and returns None for the longitude None.
ThmC11 ==
    op = "zodiac_sign" =>
        IF args.ecl_lon = None THEN ret = None
        ELSE /\ \E k \in SignSteps :
                   /\ 30 * k * Degree <= args.ecl_lon.v
                   /\ args.ecl_lon.v < 30 * (k + 1) * Degree
                   /\ ret = Str(SignOrder[(k % 12) + 1])
             /\ args.ecl_lon.v = 0 => ret = Str("Aries")
             /\ args.ecl_lon.v = 3599 * Tick => ret = Str("Pisces")

\* zodiac_sign(359.9) has returned Pisces
WitC11 ==
    /\ op = "zodiac_sign"
    /\ args.ecl_lon = Float(3599 * Tick)
    /\ ret = Str("Pisces")

\* C12: for a numeric longitude lon and a harmonic number n >= 1,
\* harmonics(lon, n) is the number (lon * n) mod 360, which lies in [0, 360);
\* harmonics(lon, 1) is lon mod 360.
CexC12 ==
    (op = "harmonics" /\ args.ecl_lon_deg.type = "float") =>
        /\ ret.type = "float"
        /\ 0 <= ret.v /\ ret.v < Turn
        /\ (ret.v - args.ecl_lon_deg.v * args.harmonic_number) % Turn = 0
        /\ args.harmonic_number = 1 => (ret.v - args.ecl_lon_deg.v) % Turn = 0

\* C13: harmonics raises nothing; it returns None for None, and None for
\* every longitude that is not a number: never an error, never a number.
CexC13 ==
    op = "harmonics" =>
        /\ ret.type # "raise"
        /\ args.ecl_lon_deg = None => ret = None
        /\ args.ecl_lon_deg.type # "float" => ret = None

Malformed(ts) ==
    \/ ts.zone \notin {"Z", "+00:00"}
    \/ ts.month < 1 \/ ts.month > 12
    \/ ts.day < 1 \/ ts.day > 31
    \/ ts.day = 31 /\ ts.month \in {2, 4, 6, 9, 11}
    \/ ts.day = 30 /\ ts.month = 2
    \/ ts.day = 29 /\ ts.month = 2 /\ ts.year \in {1999, 2100}
    \/ ts.hour > 23
    \/ ts.minute > 59

\* C14: julian_date_from_iso signals an error for every malformed timestamp
\* text and returns no Julian Date for it, neither a default nor a fallback.
ThmC14 ==
    (op = "julian_date_from_iso" /\ Malformed(args.iso_ts)) =>
        ret = Raise("ValueError")

\* julian_date_from_iso("2024-13-01T12:00:00Z") has raised
WitC14 ==
    /\ op = "julian_date_from_iso"
    /\ args.iso_ts = [year |-> 2024, month |-> 13, day |-> 1, hour |-> 12,
                      minute |-> 0, zone |-> "Z"]
    /\ ret.type = "raise"

\* C15: compute_ascendant returns a longitude and raises no error for every
\* Julian Date, latitude in [-90, 90] and observer longitude, the inputs
\* with a singular tan(lat) or a vanishing denominator included.
CexC15 ==
    op = "compute_ascendant" => (ret.type = "float" /\ ret.deg \in 0 .. 360)

\* C16: every longitude that a core function returns (local_sidereal_time,
\* compute_ascendant, compute_mc, each cusp of whole_sign_cusps and of
\* placidus_cusps, harmonics) is at least 0 and below 360, for all inputs,
\* negative observer longitudes included.
CexC16 ==
    /\ op \in {"local_sidereal_time", "compute_mc"} => (0 <= ret /\ ret < 360)
    /\ (op = "compute_ascendant" /\ ret.type = "float") =>
          (0 <= ret.deg /\ ret.deg < 360)
    /\ op \in {"whole_sign_cusps", "placidus_cusps"} =>
          \A h \in DOMAIN ret : 0 <= ret[h] /\ ret[h] < 360
    /\ (op = "harmonics" /\ ret.type = "float") => (0 <= ret.v /\ ret.v < Turn)

\* the longitude opposite to lon
Opposite(lon) == IF lon + 180 >= 360 THEN lon + 180 - 360 ELSE lon + 180

\* C19: placidus_cusps returns a mapping whose keys are exactly 1 .. 12, in
\* which cusp 10 is compute_mc of the same Julian Date and observer
\* longitude, and cusps 4, 5, 6, 7, 8, 9 are cusps 10, 11, 12, 1, 2, 3 plus
\* 180 modulo 360.
ThmC19 ==
    op = "placidus_cusps" =>
        /\ DOMAIN ret = 1 .. 12
        /\ ret[10] = compute_mc(args.gmst_deg, args.lon_deg)
        /\ ret[4] = Opposite(ret[10])
        /\ ret[5] = Opposite(ret[11])
        /\ ret[6] = Opposite(ret[12])
        /\ ret[7] = Opposite(ret[1])
        /\ ret[8] = Opposite(ret[2])
        /\ ret[9] = Opposite(ret[3])

\* placidus_cusps has returned for a west observer, with the MC at 261 and
\* cusp 4 wrapped to 81
WitC19 ==
    /\ op = "placidus_cusps"
    /\ args.lon_deg = -75
    /\ ret[10] = 261
    /\ ret[4] = 81

FeedBodies ==
    UNION { { BodyGroups[g].bodies[i] : i \in 1 .. Len(BodyGroups[g].bodies) } :
            g \in 1 .. Len(BodyGroups) }

\* C21: after any sequence of generate_transits calls, each call returns a
\* feed whose generated_utc is that call's timestamp in ISO form and whose
\* transits map holds an entry for every body of the eight body groups and
\* for no other (none carried over from an earlier call), the major planets
\* with sign_13 and the harmonics 1 .. 24.
CexC21 ==
    op = "generate_transits" =>
        /\ ret.type = "dict"
        /\ ret.generated_utc = isoformat(args.now)
        /\ DOMAIN ret.transits = FeedBodies
        /\ \A i \in 1 .. Len(major_bodies) :
              /\ "sign_13" \in DOMAIN ret.transits[major_bodies[i]]
              /\ DOMAIN ret.transits[major_bodies[i]].harmonics
                    = { ToString(h) : h \in 1 .. 24 }

(***************************************************************************)
(* Properties of pick_dominant_aspects                                     *)
(***************************************************************************)
\* the items of the grid whose pair contains the body, as indices
AspectsOf(body, its) ==
    { k \in 1 .. Len(its) :
         \E i \in 1 .. Len(DominantNames) :
            \/ its[k].pair = key(body, DominantNames[i])
            \/ its[k].pair = key(DominantNames[i], body) }

\* the entry e names the partner of item k's pair and carries its orb
Names(e, body, item) ==
    /\ item.pair \in {key(body, e.other), key(e.other, body)}
    /\ e.orb = item.detail.orb
    /\ e.type = item.detail.type

\* C22: for every grid that compute_all_aspects produced, over any set of
\* body names, and every body of the set, pick_dominant_aspects returns
\* without error at most three entries; each names as "other" the partner of
\* a grid pair that contains the body; they are the body's aspects of
\* smallest orb, in non-decreasing orb order.
CexC22 ==
    op = "pick_dominant_aspects" =>
        /\ ret.type = "list"
        /\ Len(ret.items) = Min(3, Cardinality(AspectsOf(args.body, args.aspects)))
        /\ \A n \in 1 .. Len(ret.items) :
              \E k \in AspectsOf(args.body, args.aspects) :
                 Names(ret.items[n], args.body, args.aspects[k])
        /\ \A n \in 1 .. Len(ret.items), m \in 1 .. Len(ret.items) :
              /\ n < m => ret.items[n].orb <= ret.items[m].orb
              /\ n # m => ret.items[n].other # ret.items[m].other
        /\ \A k \in AspectsOf(args.body, args.aspects) :
              (\E n \in 1 .. Len(ret.items) : args.aspects[k].detail.orb < ret.items[n].orb)
                  => \E n \in 1 .. Len(ret.items) :
                        Names(ret.items[n], args.body, args.aspects[k])

====
